---- MODULE Spec2Model ----
(***************************************************************************)
(* A model of the RAG API server of src/src/index.ts: the process-wide     *)
(* handles (vectorStore, pinecone), the process environment, the pdfs/     *)
(* directory, and the HTTP requests in flight.  Node runs one continuation *)
(* at a time, so every action below is the code a handler executes between *)
(* two awaits that wait for I/O.                                           *)
(***************************************************************************)
EXTENDS Integers, Sequences, FiniteSets, TLC

VARIABLES env, vectorStore, pinecone, files, req, dp

vars == <<env, vectorStore, pinecone, files, req, dp>>

(***************************************************************************)
(* Bounds.                                                                 *)
(***************************************************************************)
\* number of HTTP requests the process receives in one run
MaxRequests == 2
\* pages of the documents deletePages is applied to in SpecPages
MaxPages == 5
\* length of the pagesToDelete lists in SpecPages
MaxDeletions == 3

Reqs == 1..MaxRequests

(***************************************************************************)
(* Values.                                                                 *)
(***************************************************************************)
\* JavaScript's undefined (a field missing from req.body) and null
Undefined == "<undefined>"
Null == "<null>"
\* the vectorStore binding: null, or the store a request's fromDocuments made
NoStore == <<>>
StoreOf(r) == <<r>>
\* JavaScript truthiness of a string-or-undefined value: `!x`, `x || d`
Truthy(x) == x \notin {Undefined, ""}

EnvKeys == {"OPENAI_API_KEY", "PINECONE_API_KEY", "PINECONE_INDEX_NAME"}

\* URLs are sequences of characters, so that endsWith is computed.
UrlPdf == <<"h", "/", "a", ".", "p", "d", "f">>
UrlTxt == <<"h", "/", "a", ".", "t", "x", "t">>
UrlUpperPdf == <<"h", "/", "a", ".", "P", "D", "F">>
\* req.body of the uploads.  paperUrl <<>> is the empty string (an absent
\* paperUrl takes the same branch); pagesToDelete <<>> is an absent or empty
\* list, <<1>> a page of the served document, <<3>> a page past its end.
Body(url, name, pagesToDelete) ==
    [paperUrl |-> url, name |-> name, pagesToDelete |-> pagesToDelete]
UploadBodies ==
    {Body(<<>>, "doc1", <<>>), Body(UrlTxt, "doc1", <<>>),
     Body(UrlUpperPdf, Undefined, <<>>),
     Body(UrlPdf, Undefined, <<>>), Body(UrlPdf, "", <<>>),
     Body(UrlPdf, "doc1", <<1>>),
     Body(UrlPdf, "doc1", <<3>>)}
MessageInputs == {Undefined, "q"}

\* A PDF buffer: whether the bytes parse as a PDF, and the pages (named by
\* their original 1-based number) when they do.
PdfOf(pages) == [valid |-> TRUE, pages |-> pages]
Garbage == [valid |-> FALSE, pages |-> <<>>]
\* what the remote URL serves
ServedPdf == PdfOf(<<1, 2>>)
FetchOutcomes == {"error", "garbage", "pdf"}

\* characters of text on a page: page 1 fits one chunk, page 2 needs two,
\* any other page is blank
TextLen(page) == CASE page = 1 -> 600 [] page = 2 -> 1800 [] OTHER -> 0

(***************************************************************************)
(* Pure helpers.                                                           *)
(***************************************************************************)
\* String.prototype.endsWith
endsWith(s, suffix) ==
    /\ Len(s) >= Len(suffix)
    /\ SubSeq(s, Len(s) - Len(suffix) + 1, Len(s)) = suffix

\* PDFDocument.removePage(index): index is 0-based and must be a page
removePage(pages, index) ==
    IF index >= 0 /\ index < Len(pages)
    THEN [ok |-> TRUE,
          pages |-> SubSeq(pages, 1, index) \o SubSeq(pages, index + 2, Len(pages))]
    ELSE [ok |-> FALSE, pages |-> pages]

\* the for loop of deletePages from its i-th iteration on; removed collects
\* the 0-based indices handed to removePage
RECURSIVE deletePagesLoop(_, _, _, _, _)
deletePagesLoop(pages, pagesToDelete, i, numToOffsetBy, removed) ==
    IF i > Len(pagesToDelete)
    THEN [ok |-> TRUE, pages |-> pages, removed |-> removed]
    ELSE LET index == pagesToDelete[i] - numToOffsetBy
             r == removePage(pages, index)
         IN IF r.ok
            THEN deletePagesLoop(r.pages, pagesToDelete, i + 1, numToOffsetBy + 1,
                                 Append(removed, index))
            ELSE [ok |-> FALSE, pages |-> r.pages, removed |-> Append(removed, index)]

\* the same loop with numToOffsetBy++ forgotten
RECURSIVE deletePagesLoopNoIncrement(_, _, _, _, _)
deletePagesLoopNoIncrement(pages, pagesToDelete, i, numToOffsetBy, removed) ==
    IF i > Len(pagesToDelete)
    THEN [ok |-> TRUE, pages |-> pages, removed |-> removed]
    ELSE LET index == pagesToDelete[i] - numToOffsetBy
             r == removePage(pages, index)
         IN IF r.ok
            THEN deletePagesLoopNoIncrement(r.pages, pagesToDelete, i + 1,
                                            numToOffsetBy, Append(removed, index))
            ELSE [ok |-> FALSE, pages |-> r.pages, removed |-> Append(removed, index)]

deletePagesNoIncrement(pdf, pagesToDelete) ==
    IF ~pdf.valid
    THEN [ok |-> FALSE, pdf |-> pdf, removed |-> <<>>]
    ELSE LET l == deletePagesLoopNoIncrement(pdf.pages, pagesToDelete, 1, 1, <<>>)
         IN [ok |-> l.ok, pdf |-> PdfOf(l.pages), removed |-> l.removed]

\* deletePages: PDFDocument.load throws on bytes that are no PDF, the loop
\* starts with numToOffsetBy = 1, save() re-encodes the pages that are left
deletePages(pdf, pagesToDelete) ==
    IF ~pdf.valid
    THEN [ok |-> FALSE, pdf |-> pdf, removed |-> <<>>]
    ELSE LET l == deletePagesLoop(pdf.pages, pagesToDelete, 1, 1, <<>>)
         IN [ok |-> l.ok, pdf |-> PdfOf(l.pages), removed |-> l.removed]

\* chunks RecursiveCharacterTextSplitter cuts a text of len characters into
chunkSize == 1000
chunkOverlap == 200
nChunks(len) ==
    IF len = 0 THEN 0
    ELSE IF len <= chunkSize THEN 1
    ELSE ((len - chunkOverlap) + (chunkSize - chunkOverlap) - 1)
             \div (chunkSize - chunkOverlap)

\* PDFLoader.load: one Document per page
loadDocuments(pdf) ==
    [i \in 1..Len(pdf.pages) |-> [page |-> pdf.pages[i], part |-> 0,
                                  documentName |-> Null]]

\* chunkDocuments: the chunks of every document, in order, metadata kept
RECURSIVE chunkDocuments(_)
chunkDocuments(documents) ==
    IF documents = <<>> THEN <<>>
    ELSE LET d == Head(documents)
         IN [k \in 1..nChunks(TextLen(d.page)) |-> [d EXCEPT !.part = k]]
            \o chunkDocuments(Tail(documents))

\* storeDocuments lines 95-99: documentName: name on every document
withMetadata(documents, name) ==
    [i \in 1..Len(documents) |-> [documents[i] EXCEPT !.documentName = name]]

(***************************************************************************)
(* Requests.  A request is a record of the handler's locals (req.body, the *)
(* buffers and documents), its position, the response it has sent, and two *)
(* records of its history: the external calls it has issued and the        *)
(* pipeline step that threw, if any.                                       *)
(***************************************************************************)
Idle ==
    [kind |-> "none", pc |-> "idle",
     paperUrl |-> <<>>, name |-> Undefined, pagesToDelete |-> <<>>,
     message |-> Undefined,
     pdf |-> Garbage, documents |-> <<>>, chunks |-> <<>>, handed |-> <<>>,
     calls |-> {}, failed |-> Null, storeDone |-> FALSE,
     status |-> 0, error |-> Null, success |-> FALSE,
     respName |-> Null, documentCount |-> -1]

\* res.status(code).json({ error })
respondError(q, code, msg) ==
    [q EXCEPT !.pc = "done", !.status = code, !.error = msg]

\* the catch block of /upload and of /chat: 500 with the error's message
catch(q, step, msg) ==
    [respondError(q, 500, msg) EXCEPT !.failed = step]

\* processPdfFromUrl returning the loader's documents instead of the chunks
processPdfFromUrlResultDocuments(documents, chunks) == documents

\* what processPdfFromUrl returns to the handler
processPdfFromUrlResult(documents, chunks) == chunks

\* res.json of /upload after processPdfFromUrl has returned
uploadSuccess(q) ==
    LET returned == processPdfFromUrlResult(q.documents, q.chunks)
    IN [q EXCEPT !.pc = "done", !.status = 200, !.success = TRUE,
                 !.documentCount = Len(returned),
                 !.respName = IF Truthy(q.name) THEN q.name ELSE "unnamed"]

\* storeDocuments without its check of PINECONE_INDEX_NAME
storeConfigErrorNoIndexCheck(e, client) ==
    IF "OPENAI_API_KEY" \notin e
    THEN "OPENAI_API_KEY environment variable is required"
    ELSE IF ~client /\ "PINECONE_API_KEY" \notin e
    THEN "PINECONE_API_KEY environment variable is required"
    ELSE Null

\* the error storeDocuments throws before it reaches the vector store, or
\* Null: OPENAI_API_KEY, then initializePinecone (which reads
\* PINECONE_API_KEY only while no client exists), then PINECONE_INDEX_NAME
storeConfigError(e, client) ==
    IF "OPENAI_API_KEY" \notin e
    THEN "OPENAI_API_KEY environment variable is required"
    ELSE IF ~client /\ "PINECONE_API_KEY" \notin e
    THEN "PINECONE_API_KEY environment variable is required"
    ELSE IF "PINECONE_INDEX_NAME" \notin e
    THEN "PINECONE_INDEX_NAME environment variable is required"
    ELSE Null

\* the pinecone client after storeDocuments' call of initializePinecone
initializePinecone(e, client) ==
    IF "OPENAI_API_KEY" \notin e THEN client
    ELSE client \/ "PINECONE_API_KEY" \in e

\* a create branch that keeps a handle another request assigned meanwhile
assignHandleIfAbsent(vs, created) == IF vs = NoStore THEN created ELSE vs

\* vectorStore = await PineconeStore.fromDocuments(...)
assignHandle(vs, created) == created

\* an addDocuments failure that drops the handle
handleAfterAddDropOnFailure(vs, ok) == IF ok THEN vs ELSE NoStore

\* the binding after await vectorStore.addDocuments(...), resolved or rejected
handleAfterAdd(vs, ok) == vs

\* /chat without its check of vectorStore
chatGuardNoStoreCheck(message, vs, e) ==
    IF ~Truthy(message) THEN [status |-> 400, error |-> "message is required"]
    ELSE IF "OPENAI_API_KEY" \notin e
    THEN [status |-> 500, error |-> "OPENAI_API_KEY not configured"]
    ELSE [status |-> 0, error |-> Null]

\* the checks of /chat before its first await
chatGuard(message, vs, e) ==
    IF ~Truthy(message) THEN [status |-> 400, error |-> "message is required"]
    ELSE IF vs = NoStore THEN [status |-> 400, error |-> "No documents uploaded yet"]
    ELSE IF "OPENAI_API_KEY" \notin e
    THEN [status |-> 500, error |-> "OPENAI_API_KEY not configured"]
    ELSE [status |-> 0, error |-> Null]

(***************************************************************************)
(* Initial states.  process.env is read on every request but written by    *)
(* nothing in the program: it is chosen once, at startup.                  *)
(***************************************************************************)
DpIdle == [pdf |-> Garbage, pagesToDelete |-> <<>>, ran |-> FALSE,
           result |-> deletePages(Garbage, <<>>)]

Init ==
    /\ env \in SUBSET EnvKeys
    /\ vectorStore = NoStore
    /\ pinecone = FALSE
    /\ files = {}
    /\ req = [r \in Reqs |-> Idle]
    /\ dp = DpIdle

(***************************************************************************)
(* GET /health                                                             *)
(***************************************************************************)
Health(r) ==
    /\ req[r].pc = "idle"
    /\ req' = [req EXCEPT ![r] = [Idle EXCEPT !.kind = "health", !.pc = "done",
                                              !.status = 200]]
    /\ UNCHANGED <<env, vectorStore, pinecone, files, dp>>

(***************************************************************************)
(* POST /upload                                                            *)
(***************************************************************************)
\* the handler up to axios.get
UploadStart(r, body) ==
    /\ req[r].pc = "idle"
    /\ LET q == [Idle EXCEPT !.kind = "upload", !.paperUrl = body.paperUrl,
                             !.name = body.name,
                             !.pagesToDelete = body.pagesToDelete]
       IN req' = [req EXCEPT ![r] =
            IF q.paperUrl = <<>>
            THEN respondError(q, 400, "paperUrl is required")
            ELSE IF ~endsWith(q.paperUrl, <<"p", "d", "f">>)
            THEN catch(q, "validate", "Must be a pdf")
            ELSE [q EXCEPT !.pc = "fetch", !.calls = {"fetch"}]]
    /\ UNCHANGED <<env, vectorStore, pinecone, files, dp>>

\* axios.get settles; on success deletePages or convertPdfToDocuments starts
FetchDone(r, outcome) ==
    /\ req[r].pc = "fetch"
    /\ LET q == req[r]
           buf == IF outcome = "pdf" THEN ServedPdf ELSE Garbage
       IN req' = [req EXCEPT ![r] =
            IF outcome = "error"
            THEN catch(q, "fetch", "Request failed")
            ELSE IF Len(q.pagesToDelete) > 0
            THEN [q EXCEPT !.pdf = buf, !.pc = "deletePages",
                           !.calls = @ \cup {"deletePages"}]
            ELSE [q EXCEPT !.pdf = buf, !.pc = "writeFile",
                           !.calls = @ \cup {"writeFile"}]]
    /\ UNCHANGED <<env, vectorStore, pinecone, files, dp>>

\* deletePages settles; on success convertPdfToDocuments writes the file
DeletePagesDone(r) ==
    /\ req[r].pc = "deletePages"
    /\ LET q == req[r]
           d == deletePages(q.pdf, q.pagesToDelete)
       IN req' = [req EXCEPT ![r] =
            IF d.ok
            THEN [q EXCEPT !.pdf = d.pdf, !.pc = "writeFile",
                           !.calls = @ \cup {"writeFile"}]
            ELSE catch(q, "deletePages", "PDF error")]
    /\ UNCHANGED <<env, vectorStore, pinecone, files, dp>>

\* writeFile settles: the transient file pdfs/<randomName>.pdf exists (the
\* random name is taken to be unique, so the request names the file; the
\* pdfs directory exists, the Dockerfile creates it)
WriteFileDone(r) ==
    /\ req[r].pc = "writeFile"
    /\ req' = [req EXCEPT ![r] = [@ EXCEPT !.pc = "load",
                                            !.calls = @ \cup {"load"}]]
    /\ files' = files \cup {r}
    /\ UNCHANGED <<env, vectorStore, pinecone, dp>>

\* loader.load settles; only after a successful load is unlink called
LoadDone(r) ==
    /\ req[r].pc = "load"
    /\ LET q == req[r]
       IN req' = [req EXCEPT ![r] =
            IF q.pdf.valid
            THEN [q EXCEPT !.documents = loadDocuments(q.pdf), !.pc = "unlink",
                           !.calls = @ \cup {"unlink"}]
            ELSE catch(q, "load", "Invalid PDF structure")]
    /\ UNCHANGED <<env, vectorStore, pinecone, files, dp>>

\* unlink settles; chunkDocuments calls the splitter
UnlinkDone(r) ==
    /\ req[r].pc = "unlink"
    /\ req' = [req EXCEPT ![r] = [@ EXCEPT !.pc = "split",
                                            !.calls = @ \cup {"split"}]]
    /\ files' = files \ {r}
    /\ UNCHANGED <<env, vectorStore, pinecone, dp>>

\* splitDocuments settles; storeDocuments runs up to its await of the
\* vector store.  (await initializePinecone() yields to the microtask queue
\* only; what runs before it reads nothing but process.env.)
SplitDone(r) ==
    /\ req[r].pc = "split"
    /\ LET q == [req[r] EXCEPT !.chunks = chunkDocuments(req[r].documents)]
           err == storeConfigError(env, pinecone)
           tagged == withMetadata(q.chunks, q.name)
       IN req' = [req EXCEPT ![r] =
            IF err # Null
            THEN catch(q, "store", err)
            ELSE IF vectorStore = NoStore
            THEN [q EXCEPT !.handed = tagged, !.pc = "fromDocuments",
                           !.calls = @ \cup {"fromDocuments"}]
            ELSE [q EXCEPT !.handed = tagged, !.pc = "addDocuments",
                           !.calls = @ \cup {"addDocuments"}]]
    /\ pinecone' = initializePinecone(env, pinecone)
    /\ UNCHANGED <<env, vectorStore, files, dp>>

\* PineconeStore.fromDocuments settles: the handle is assigned, the
\* pipeline returns and the handler answers
FromDocumentsDone(r, ok) ==
    /\ req[r].pc = "fromDocuments"
    /\ LET q == req[r]
       IN req' = [req EXCEPT ![r] =
            IF ok
            THEN uploadSuccess([q EXCEPT !.storeDone = TRUE])
            ELSE catch(q, "store", "upstream error")]
    /\ vectorStore' = IF ok THEN assignHandle(vectorStore, StoreOf(r)) ELSE vectorStore
    /\ UNCHANGED <<env, pinecone, files, dp>>

\* vectorStore.addDocuments settles
AddDocumentsDone(r, ok) ==
    /\ req[r].pc = "addDocuments"
    /\ LET q == req[r]
       IN req' = [req EXCEPT ![r] =
            IF ok
            THEN uploadSuccess([q EXCEPT !.storeDone = TRUE])
            ELSE catch(q, "store", "upstream error")]
    /\ vectorStore' = handleAfterAdd(vectorStore, ok)
    /\ UNCHANGED <<env, pinecone, files, dp>>

(***************************************************************************)
(* POST /chat (k only sizes the search result and is left out)             *)
(***************************************************************************)
ChatStart(r, message) ==
    /\ req[r].pc = "idle"
    /\ LET q == [Idle EXCEPT !.kind = "chat", !.message = message]
           g == chatGuard(message, vectorStore, env)
       IN req' = [req EXCEPT ![r] =
            IF g.status # 0
            THEN respondError(q, g.status, g.error)
            ELSE [q EXCEPT !.pc = "similaritySearch",
                           !.calls = {"similaritySearch"}]]
    /\ UNCHANGED <<env, vectorStore, pinecone, files, dp>>

\* similaritySearch settles; the prompt is built and chatModel.invoke called
SearchDone(r, ok) ==
    /\ req[r].pc = "similaritySearch"
    /\ LET q == req[r]
       IN req' = [req EXCEPT ![r] =
            IF ok
            THEN [q EXCEPT !.pc = "chatInvoke", !.calls = @ \cup {"chatInvoke"}]
            ELSE catch(q, "search", "upstream error")]
    /\ UNCHANGED <<env, vectorStore, pinecone, files, dp>>

\* chatModel.invoke settles
InvokeDone(r, ok) ==
    /\ req[r].pc = "chatInvoke"
    /\ LET q == req[r]
       IN req' = [req EXCEPT ![r] =
            IF ok
            THEN [q EXCEPT !.pc = "done", !.status = 200, !.success = TRUE]
            ELSE catch(q, "chat", "upstream error")]
    /\ UNCHANGED <<env, vectorStore, pinecone, files, dp>>

Next ==
    \E r \in Reqs :
        \/ Health(r)
        \/ \E body \in UploadBodies : UploadStart(r, body)
        \/ \E outcome \in FetchOutcomes : FetchDone(r, outcome)
        \/ DeletePagesDone(r)
        \/ WriteFileDone(r)
        \/ LoadDone(r)
        \/ UnlinkDone(r)
        \/ SplitDone(r)
        \/ \E ok \in BOOLEAN : FromDocumentsDone(r, ok)
        \/ \E ok \in BOOLEAN : AddDocumentsDone(r, ok)
        \/ \E message \in MessageInputs : ChatStart(r, message)
        \/ \E ok \in BOOLEAN : SearchDone(r, ok)
        \/ \E ok \in BOOLEAN : InvokeDone(r, ok)

Spec == Init /\ [][Next]_vars

(***************************************************************************)
(* deletePages on its own: every document of up to MaxPages pages and      *)
(* every list of up to MaxDeletions page numbers.                          *)
(***************************************************************************)
RECURSIVE SeqsUpTo(_, _)
SeqsUpTo(S, n) ==
    IF n = 0 THEN {<<>>}
    ELSE LET shorter == SeqsUpTo(S, n - 1)
         IN shorter \cup {Append(s, x) : s \in shorter, x \in S}

PageDocs == {PdfOf([i \in 1..n |-> i]) : n \in 0..MaxPages} \cup {Garbage}
PageLists == SeqsUpTo(0..(MaxPages + 1), MaxDeletions)

InitPages ==
    /\ env = EnvKeys
    /\ vectorStore = NoStore
    /\ pinecone = FALSE
    /\ files = {}
    /\ req = [r \in Reqs |-> Idle]
    /\ \E pdf \in PageDocs, p \in PageLists :
           dp = [DpIdle EXCEPT !.pdf = pdf, !.pagesToDelete = p]

ApplyDeletePages ==
    /\ ~dp.ran
    /\ dp' = [dp EXCEPT !.ran = TRUE, !.result = deletePages(dp.pdf, dp.pagesToDelete)]
    /\ UNCHANGED <<env, vectorStore, pinecone, files, req>>

NextPages == ApplyDeletePages

SpecPages == InitPages /\ [][NextPages]_vars

(***************************************************************************)
(* Properties.                                                             *)
(***************************************************************************)
IsUpload(r) == req[r].kind = "upload"
IsChat(r) == req[r].kind = "chat"
Done(r) == req[r].pc = "done"
StoreCalls == {"fromDocuments", "addDocuments"}
ConfigErrors ==
    {"OPENAI_API_KEY environment variable is required",
     "PINECONE_API_KEY environment variable is required",
     "PINECONE_INDEX_NAME environment variable is required"}
NoDocuments == "No documents uploaded yet"
Range(s) == {s[i] : i \in DOMAIN s}
StrictlyAscending(s) == \A i \in 1..(Len(s) - 1) : s[i] < s[i + 1]

\* C1: an upload whose paperUrl is non-empty and does not end in "pdf" is
\* answered 400, and no fetch nor any later pipeline step is performed.
C1_NonPdfUrlAnswered400 ==
    \A r \in Reqs :
        (IsUpload(r) /\ req[r].pc # "idle" /\ req[r].paperUrl # <<>>
            /\ ~endsWith(req[r].paperUrl, <<"p", "d", "f">>))
        => (Done(r) /\ req[r].status = 400 /\ req[r].calls = {})

\* C2: while the vector store handle is absent, every /chat with a
\* non-empty message has been answered 400 'No documents uploaded yet' and
\* has issued neither a similarity search nor a chat-model call.
C2_ChatWithoutHandleIs400 ==
    vectorStore = NoStore =>
        \A r \in Reqs :
            (IsChat(r) /\ Truthy(req[r].message))
            => /\ Done(r)
               /\ req[r].status = 400
               /\ req[r].error = NoDocuments
               /\ ~req[r].success
               /\ req[r].calls = {}

\* a chat refused for want of documents, with a failed upload beside it
C2_Witness ==
    /\ vectorStore = NoStore
    /\ \E r \in Reqs : IsChat(r) /\ Truthy(req[r].message) /\ req[r].status = 400
    /\ \E r \in Reqs : IsUpload(r) /\ req[r].failed = "store"
                       /\ "fromDocuments" \in req[r].calls

C4_StoredNameIsReportedName ==
    \A r \in Reqs :
        (IsUpload(r) /\ req[r].success)
        => \A i \in DOMAIN req[r].handed :
               req[r].handed[i].documentName = req[r].respName

\* C5: a /chat with a non-empty message, issued while the handle exists and
\* OPENAI_API_KEY is absent, is answered 500 before any network call.  The
\* handle is assigned only by a storeDocuments that found OPENAI_API_KEY in
\* the same environment, so no reachable state has the handle without the
\* key, as this invariant records.
HandleImpliesOpenAIKey ==
    vectorStore # NoStore => "OPENAI_API_KEY" \in env

\* C6: no terminated upload leaves its transient file in the pdfs directory.
C6_NoTransientFileLeft ==
    \A r \in Reqs : Done(r) => r \notin files

\* C7: with any of the three settings absent, no step of an upload changes
\* the handle, and the step that runs storeDocuments ends the request with
\* status 500 and a configuration error, no vector store call issued.
C7_MissingConfigFailsStore ==
    [][env # EnvKeys =>
        \A r \in Reqs :
            (req'[r].kind = "upload" /\ req'[r] # req[r])
            => /\ vectorStore' = vectorStore
               /\ req[r].pc = "split"
                  => /\ req'[r].pc = "done"
                     /\ req'[r].status = 500
                     /\ req'[r].error \in ConfigErrors
                     /\ req'[r].calls \cap StoreCalls = {}]_vars

\* an upload that reached storeDocuments without PINECONE_INDEX_NAME
C7_Witness ==
    /\ "PINECONE_INDEX_NAME" \notin env
    /\ vectorStore = NoStore
    /\ \E r \in Reqs :
           /\ IsUpload(r) /\ Done(r) /\ "split" \in req[r].calls
           /\ req[r].error = "PINECONE_INDEX_NAME environment variable is required"

\* C8: an upload has sent a success response only if its store step has
\* completed for all its chunks, with documentCount the number of chunks;
\* an upload one of whose steps failed has sent an error response.
C8_NoPartialSuccess ==
    \A r \in Reqs :
        IsUpload(r) =>
            /\ req[r].success =>
                  /\ Done(r)
                  /\ req[r].status = 200
                  /\ req[r].storeDone
                  /\ req[r].failed = Null
                  /\ req[r].chunks = chunkDocuments(req[r].documents)
                  /\ req[r].handed = withMetadata(req[r].chunks, req[r].name)
                  /\ req[r].documentCount = Len(req[r].chunks)
            /\ req[r].failed # Null =>
                  /\ Done(r)
                  /\ ~req[r].success
                  /\ req[r].status = 500
                  /\ req[r].error # Null

\* a success response for a document whose chunks outnumber its pages
C8_Witness ==
    \E r \in Reqs :
        /\ IsUpload(r) /\ req[r].success
        /\ req[r].documentCount = 3
        /\ Len(req[r].documents) = 2

\* C9: every request that took the create branch assigns the handle when
\* its fromDocuments completes, whatever another request assigned before:
\* two concurrent first uploads both run the branch and the later
\* completion overwrites the earlier handle.
C9_CreateBranchOverwrites ==
    [][\A r \in Reqs :
          (req[r].pc = "fromDocuments" /\ req'[r].success)
          => vectorStore' = StoreOf(r)]_vars

\* the create branch has run twice and the second handle replaced the first
C9_Witness ==
    \E r1, r2 \in Reqs :
        /\ r1 # r2
        /\ "fromDocuments" \in req[r1].calls /\ req[r1].success
        /\ "fromDocuments" \in req[r2].calls /\ req[r2].success
        /\ vectorStore = StoreOf(r2)

\* C10: the handle changes only when a store step of an upload completes
\* successfully, it is never reset to absent, and once it is set no /chat
\* is answered 'No documents uploaded yet'.
C10_HandleMonotonic ==
    [][/\ vectorStore' # vectorStore
          => /\ vectorStore' # NoStore
             /\ \E r \in Reqs : /\ req[r].kind = "upload"
                                /\ req[r].pc = "fromDocuments"
                                /\ req'[r].success /\ req'[r].storeDone
       /\ vectorStore # NoStore
          => /\ vectorStore' # NoStore
             /\ \A r \in Reqs : req'[r].error = NoDocuments
                                => req[r].error = NoDocuments]_vars

\* an upload failed in addDocuments after the handle was set
C10_Witness ==
    /\ vectorStore # NoStore
    /\ \E r \in Reqs : /\ IsUpload(r) /\ req[r].failed = "store"
                       /\ "addDocuments" \in req[r].calls

====
